---- MODULE Spec2Model ----
(***************************************************************************)
(* write-hasher (src/src/lib.rs): WriteHasher<D, T> wraps a byte sink T    *)
(* and feeds every byte the sink accepted to the incremental hash D.       *)
(*                                                                         *)
(* The model holds one adapter.  Its sink type fixes the I/O flavor        *)
(* (std::io::Write, tokio::io::AsyncWrite, futures::io::AsyncWrite), its   *)
(* hash type is either the in-tree Crc32c or a hash reached through the    *)
(* generic digest::Digest bridge.  The inner sink is the environment: it   *)
(* answers every call with any result its contract allows.                 *)
(***************************************************************************)
EXTENDS Integers, Sequences, FiniteSets, TLC

VARIABLES
    features,   \* the cargo features of the build
    build,      \* "none" before compilation, then "ok" or "rejected"
    flavor,     \* the sink contract of T: "stdio", "tokio" or "futures"
    hasher,     \* WriteHasher.hasher
    origin,     \* the hasher the adapter was built with; the default one after a reset
    inner,      \* WriteHasher.inner: what the sink has accepted, and whether it is closed
    lifecycle,  \* "Active" until finalize(self) consumes the adapter
    digest,     \* the value finalize returned
    call,       \* the last call on the adapter: operation, buffer, sink's answer, adapter's answer
    fed,        \* history: the bytes the adapter passed to hasher.update since new / reset
    accepted,   \* history, caller's view: the prefixes buf[0..n] of the writes that returned Ok(n)
    caller      \* the retrying caller (write_all / copy) of SpecCaller

vars == <<features, build, flavor, hasher, origin, inner, lifecycle, digest, call, fed,
          accepted, caller>>

(***************************************************************************)
(* Bounds of the model.                                                    *)
(***************************************************************************)
MaxLen == 2      \* longest buffer offered in one call
MaxTotal == 3    \* bytes the sink takes in all
MaxDirect == 1   \* bytes fed through the adapter's own update between resets

Bytes == {65, 66}

Bufs == UNION {[1..n -> Bytes] : n \in 0..MaxLen}

Min(a, b) == IF a < b THEN a ELSE b

(***************************************************************************)
(* Build configuration: the compile_error! guard.                          *)
(***************************************************************************)
ConcreteFeatures ==
    {"concrete_impls", "sha1", "sha2", "md2", "md4", "md5", "blake2", "crc32fast"}

Features ==
    ConcreteFeatures \cup {"digest", "crc32c", "stdio", "tokio", "futures"}

\* The per-hash options as section 6 of the specification lists them.
PerHashOptions ==
    {"sha1", "sha2", "md2", "md4", "md5", "blake2", "crc32fast", "crc32c"}

\* Faulty variant of compile_error: cfg(any(..)) where the crate has cfg(all(..)).
compile_error_any(fs) == "digest" \in fs \/ fs \cap ConcreteFeatures # {}

\* #[cfg(all(feature = "digest", any(feature = "concrete_impls", ...)))] compile_error!
compile_error(fs) == "digest" \in fs /\ fs \cap ConcreteFeatures # {}

Compile(fs) == IF compile_error(fs) THEN "rejected" ELSE "ok"

(***************************************************************************)
(* 32-bit words as <<high 16 bits, low 16 bits>>, and CRC-32C.             *)
(***************************************************************************)
RECURSIVE XorBits(_, _, _)
XorBits(a, b, w) ==
    IF w = 0 THEN 0
    ELSE ((a + b) % 2) + 2 * XorBits(a \div 2, b \div 2, w - 1)

\* Xor of two 4-bit values, tabulated; xor of wider values nibble by nibble.
Xor4 == [x \in 0..15 |-> [y \in 0..15 |-> XorBits(x, y, 4)]]

Xor8(a, b) == Xor4[a % 16][b % 16] + 16 * Xor4[a \div 16][b \div 16]

Xor16(a, b) == Xor8(a % 256, b % 256) + 256 * Xor8(a \div 256, b \div 256)

Xor32(a, b) == <<Xor16(a[1], b[1]), Xor16(a[2], b[2])>>

Not32(a) == <<65535 - a[1], 65535 - a[2]>>

Shr32(a, k) ==
    <<a[1] \div (2^k), (a[2] \div (2^k)) + (a[1] % (2^k)) * (2^(16 - k))>>

Zero32 == <<0, 0>>
Castagnoli == <<33526, 15224>>      \* 0x82F63B78, the reflected polynomial

RECURSIVE TableRounds(_, _)
TableRounds(c, k) ==
    IF k = 0 THEN c
    ELSE TableRounds(IF c[2] % 2 = 1 THEN Xor32(Shr32(c, 1), Castagnoli)
                                     ELSE Shr32(c, 1), k - 1)

Crc32cTable == [i \in 0..255 |-> TableRounds(<<0, i>>, 8)]

RECURSIVE CrcBytes(_, _)
CrcBytes(crc, data) ==
    IF data = <<>> THEN crc
    ELSE CrcBytes(Xor32(Crc32cTable[Xor8(crc[2] % 256, Head(data))],
                        Shr32(crc, 8)),
                  Tail(data))

crc32c_append(crc, data) == Not32(CrcBytes(Not32(crc), data))

(***************************************************************************)
(* The hash capability, MinDigest.                                         *)
(*   Crc32c: the state is the seed.                                        *)
(*   Digest: any hash behind the generic bridge; its state is the message  *)
(*           it has absorbed and its output is determined by that message. *)
(***************************************************************************)
Crc32c_new == [alg |-> "Crc32c", seed |-> Zero32, absorbed |-> <<>>]

Digest_new == [alg |-> "Digest", seed |-> Zero32, absorbed |-> <<>>]

Default(alg) == IF alg = "Crc32c" THEN Crc32c_new ELSE Digest_new

Crc32c_update(h, data) == [h EXCEPT !.seed = crc32c_append(h.seed, data)]

Digest_update(h, data) == [h EXCEPT !.absorbed = h.absorbed \o data]

MinDigest_update(h, data) ==
    IF h.alg = "Crc32c" THEN Crc32c_update(h, data) ELSE Digest_update(h, data)

Crc32c_finalize(h) == [alg |-> "Crc32c", u32 |-> h.seed, of |-> <<>>]

Digest_finalize(h) == [alg |-> "Digest", u32 |-> Zero32, of |-> h.absorbed]

MinDigest_finalize(h) ==
    IF h.alg = "Crc32c" THEN Crc32c_finalize(h) ELSE Digest_finalize(h)

Digest_reset(h) == Digest_new

NoDigest == [alg |-> "none", u32 |-> Zero32, of |-> <<>>]

(***************************************************************************)
(* Results of sink operations.                                             *)
(***************************************************************************)
Errors == {"BrokenPipe", "Interrupted"}

Ok(n) == [kind |-> "Ok", n |-> n, err |-> "none"]
Err(e) == [kind |-> "Err", n |-> 0, err |-> e]
Pending == [kind |-> "Pending", n |-> 0, err |-> "none"]
NoCall == [kind |-> "NoCall", n |-> 0, err |-> "none"]

Cooperative == flavor \in {"tokio", "futures"}

\* What the inner sink may answer to a write of buf.
SinkWriteAnswers(buf) ==
    {Ok(n) : n \in 0..Min(Len(buf), MaxTotal - Len(inner.data))}
        \cup {Err(e) : e \in Errors}
        \cup (IF Cooperative THEN {Pending} ELSE {})

\* What the inner sink may answer to a flush, close or shutdown.
SinkUnitAnswers ==
    {Ok(0)} \cup {Err(e) : e \in Errors} \cup (IF Cooperative THEN {Pending} ELSE {})

\* The sink after it answered r to a write of buf.
SinkWrite(s, buf, r) ==
    IF r.kind = "Ok" THEN [s EXCEPT !.data = @ \o SubSeq(buf, 1, r.n)] ELSE s

\* The sink after it answered r to a close or shutdown: closed, after closedAt bytes.
SinkClose(s, r) ==
    IF r.kind = "Ok" THEN [s EXCEPT !.closed = TRUE, !.closedAt = Len(s.data)] ELSE s

(***************************************************************************)
(* Construction.                                                           *)
(***************************************************************************)
EmptySink == [data |-> <<>>, closed |-> FALSE, closedAt |-> 0]

new_with_hasher(s, h) == [hasher |-> h, inner |-> s]

new(s, alg) == [hasher |-> Default(alg), inner |-> s]

FlavorFeature(f) == f

\* Hashers a caller may hand to new_with_hasher: a default one, or one it has
\* already fed through MinDigest::update.
SuppliedHashers(alg) == {Default(alg), MinDigest_update(Default(alg), <<66>>)}

Init ==
    /\ features = {"digest", "crc32c", "stdio", "tokio", "futures"}
    /\ build = Compile(features)
    /\ build = "ok"
    /\ flavor \in {f \in {"stdio", "tokio", "futures"} : FlavorFeature(f) \in features}
    /\ \E alg \in {"Crc32c"} \cup (IF "digest" \in features THEN {"Digest"} ELSE {}) :
         \E a \in {new(EmptySink, alg)}
                    \cup {new_with_hasher(EmptySink, h) : h \in SuppliedHashers(alg)} :
            /\ hasher = a.hasher
            /\ origin = a.hasher
            /\ inner = a.inner
    /\ lifecycle = "Active"
    /\ digest = NoDigest
    /\ call = [op |-> "new", buf |-> <<>>, sink |-> NoCall, ret |-> NoCall]
    /\ fed = <<>>
    /\ accepted = <<>>
    /\ caller = [whole |-> <<>>, off |-> 0, delivered |-> <<>>,
                 startHasher |-> hasher, startFed |-> <<>>,
                 pollHasher |-> hasher, pollFed |-> <<>>, pended |-> FALSE,
                 repolled |-> FALSE, parts |-> 0]

(***************************************************************************)
(* The adapter's operations.  Each takes the inner sink's answer r to the  *)
(* call it forwards; the callers below draw r from what the sink may       *)
(* answer.  Each sets call' to what it forwarded and what it returned.     *)
(***************************************************************************)

\* Faulty variant of stdio_write: hashes the whole offered buffer, not buf[..n].
stdio_write_hash_offered(buf, r) ==
    /\ flavor = "stdio"
    /\ inner' = SinkWrite(inner, buf, r)
    /\ IF r.kind = "Ok"
         THEN /\ hasher' = MinDigest_update(hasher, buf)
              /\ fed' = fed \o buf
         ELSE UNCHANGED <<hasher, fed>>
    /\ call' = [op |-> "write", buf |-> buf, sink |-> r, ret |-> r]
    /\ UNCHANGED <<lifecycle, digest>>

\* Faulty variant of stdio_write: hashes the buffer also when the sink failed.
stdio_write_hash_on_error(buf, r) ==
    /\ flavor = "stdio"
    /\ inner' = SinkWrite(inner, buf, r)
    /\ IF r.kind \in {"Ok", "Err"}
         THEN /\ hasher' = MinDigest_update(hasher, IF r.kind = "Ok" THEN SubSeq(buf, 1, r.n) ELSE buf)
              /\ fed' = fed \o (IF r.kind = "Ok" THEN SubSeq(buf, 1, r.n) ELSE buf)
         ELSE UNCHANGED <<hasher, fed>>
    /\ call' = [op |-> "write", buf |-> buf, sink |-> r, ret |-> r]
    /\ UNCHANGED <<lifecycle, digest>>

\* Faulty variant of stdio_write: reports the whole buffer as written.
stdio_write_report_all(buf, r) ==
    /\ flavor = "stdio"
    /\ inner' = SinkWrite(inner, buf, r)
    /\ IF r.kind = "Ok"
         THEN /\ hasher' = MinDigest_update(hasher, SubSeq(buf, 1, r.n))
              /\ fed' = fed \o SubSeq(buf, 1, r.n)
         ELSE UNCHANGED <<hasher, fed>>
    /\ call' = [op |-> "write", buf |-> buf, sink |-> r,
                ret |-> IF r.kind = "Ok" THEN Ok(Len(buf)) ELSE r]
    /\ UNCHANGED <<lifecycle, digest>>

\* impl std::io::Write for WriteHasher: write
\*   let r = std::io::Write::write(&mut self.inner, buf);
\*   if let Ok(n) = r { MinDigest::update(&mut self.hasher, &buf[..n]); }
\*   r
stdio_write(buf, r) ==
    /\ flavor = "stdio"
    /\ inner' = SinkWrite(inner, buf, r)
    /\ IF r.kind = "Ok"
         THEN /\ hasher' = MinDigest_update(hasher, SubSeq(buf, 1, r.n))
              /\ fed' = fed \o SubSeq(buf, 1, r.n)
         ELSE UNCHANGED <<hasher, fed>>
    /\ call' = [op |-> "write", buf |-> buf, sink |-> r, ret |-> r]
    /\ UNCHANGED <<lifecycle, digest>>

\* impl std::io::Write for WriteHasher: flush
stdio_flush(r) ==
    /\ flavor = "stdio"
    /\ call' = [op |-> "flush", buf |-> <<>>, sink |-> r, ret |-> r]
    /\ UNCHANGED <<hasher, fed, inner, lifecycle, digest>>

\* Faulty variant of futures_poll_write: hashes the offered buffer while the
\* sink is still Pending.
futures_poll_write_hash_before_ready(buf, r) ==
    /\ flavor = "futures"
    /\ inner' = SinkWrite(inner, buf, r)
    /\ IF r.kind \in {"Ok", "Pending"}
         THEN /\ hasher' = MinDigest_update(hasher, IF r.kind = "Ok" THEN SubSeq(buf, 1, r.n) ELSE buf)
              /\ fed' = fed \o (IF r.kind = "Ok" THEN SubSeq(buf, 1, r.n) ELSE buf)
         ELSE UNCHANGED <<hasher, fed>>
    /\ call' = [op |-> "poll_write", buf |-> buf, sink |-> r, ret |-> r]
    /\ UNCHANGED <<lifecycle, digest>>

\* Faulty variant of tokio_poll_write: hashes the whole offered buffer.
tokio_poll_write_hash_offered(buf, r) ==
    /\ flavor = "tokio"
    /\ inner' = SinkWrite(inner, buf, r)
    /\ IF r.kind = "Ok"
         THEN /\ hasher' = MinDigest_update(hasher, buf)
              /\ fed' = fed \o buf
         ELSE UNCHANGED <<hasher, fed>>
    /\ call' = [op |-> "poll_write", buf |-> buf, sink |-> r, ret |-> r]
    /\ UNCHANGED <<lifecycle, digest>>

\* impl tokio::io::AsyncWrite for WriteHasher: poll_write
\*   let r = ah.inner.poll_write(cx, buf);
\*   if let Poll::Ready(Ok(n)) = r { ah.hasher.update(&buf[..n]); }
\*   r
tokio_poll_write(buf, r) ==
    /\ flavor = "tokio"
    /\ inner' = SinkWrite(inner, buf, r)
    /\ IF r.kind = "Ok"
         THEN /\ hasher' = MinDigest_update(hasher, SubSeq(buf, 1, r.n))
              /\ fed' = fed \o SubSeq(buf, 1, r.n)
         ELSE UNCHANGED <<hasher, fed>>
    /\ call' = [op |-> "poll_write", buf |-> buf, sink |-> r, ret |-> r]
    /\ UNCHANGED <<lifecycle, digest>>

\* Faulty variant of tokio_poll_flush: feeds the last buffer to the hasher again.
tokio_poll_flush_rehash(r) ==
    /\ flavor = "tokio"
    /\ call' = [op |-> "poll_flush", buf |-> <<>>, sink |-> r, ret |-> r]
    /\ hasher' = MinDigest_update(hasher, call.buf)
    /\ fed' = fed \o call.buf
    /\ UNCHANGED <<inner, lifecycle, digest>>

\* impl tokio::io::AsyncWrite for WriteHasher: poll_flush
tokio_poll_flush(r) ==
    /\ flavor = "tokio"
    /\ call' = [op |-> "poll_flush", buf |-> <<>>, sink |-> r, ret |-> r]
    /\ UNCHANGED <<hasher, fed, inner, lifecycle, digest>>

\* impl tokio::io::AsyncWrite for WriteHasher: poll_shutdown
tokio_poll_shutdown(r) ==
    /\ flavor = "tokio"
    /\ inner' = SinkClose(inner, r)
    /\ call' = [op |-> "poll_shutdown", buf |-> <<>>, sink |-> r, ret |-> r]
    /\ UNCHANGED <<hasher, fed, lifecycle, digest>>

\* Faulty variant of futures_poll_write: hashes the last n bytes, not the first.
futures_poll_write_hash_tail(buf, r) ==
    /\ flavor = "futures"
    /\ inner' = SinkWrite(inner, buf, r)
    /\ IF r.kind = "Ok"
         THEN /\ hasher' = MinDigest_update(hasher, SubSeq(buf, Len(buf) - r.n + 1, Len(buf)))
              /\ fed' = fed \o SubSeq(buf, Len(buf) - r.n + 1, Len(buf))
         ELSE UNCHANGED <<hasher, fed>>
    /\ call' = [op |-> "poll_write", buf |-> buf, sink |-> r, ret |-> r]
    /\ UNCHANGED <<lifecycle, digest>>

\* impl futures::io::AsyncWrite for WriteHasher: poll_write
futures_poll_write(buf, r) ==
    /\ flavor = "futures"
    /\ inner' = SinkWrite(inner, buf, r)
    /\ IF r.kind = "Ok"
         THEN /\ hasher' = MinDigest_update(hasher, SubSeq(buf, 1, r.n))
              /\ fed' = fed \o SubSeq(buf, 1, r.n)
         ELSE UNCHANGED <<hasher, fed>>
    /\ call' = [op |-> "poll_write", buf |-> buf, sink |-> r, ret |-> r]
    /\ UNCHANGED <<lifecycle, digest>>

\* impl futures::io::AsyncWrite for WriteHasher: poll_flush
futures_poll_flush(r) ==
    /\ flavor = "futures"
    /\ call' = [op |-> "poll_flush", buf |-> <<>>, sink |-> r, ret |-> r]
    /\ UNCHANGED <<hasher, fed, inner, lifecycle, digest>>

\* impl futures::io::AsyncWrite for WriteHasher: poll_close
futures_poll_close(r) ==
    /\ flavor = "futures"
    /\ inner' = SinkClose(inner, r)
    /\ call' = [op |-> "poll_close", buf |-> <<>>, sink |-> r, ret |-> r]
    /\ UNCHANGED <<hasher, fed, lifecycle, digest>>

\* impl MinDigest for WriteHasher: update, callable on the adapter itself
WriteHasher_update(data) ==
    /\ hasher' = MinDigest_update(hasher, data)
    /\ fed' = fed \o data
    /\ call' = [op |-> "update", buf |-> data, sink |-> NoCall, ret |-> NoCall]
    /\ UNCHANGED <<inner, lifecycle, digest>>

\* impl MinDigest for WriteHasher: finalize(self)
WriteHasher_finalize ==
    /\ digest' = MinDigest_finalize(hasher)
    /\ lifecycle' = "Finalized"
    /\ call' = [op |-> "finalize", buf |-> <<>>, sink |-> NoCall, ret |-> NoCall]
    /\ UNCHANGED <<hasher, fed, inner>>

\* Faulty variant of WriteHasher_reset: leaves the hasher as it is.
WriteHasher_reset_keep ==
    /\ "digest" \in features
    /\ hasher.alg = "Digest"
    /\ hasher' = hasher
    /\ fed' = fed
    /\ call' = [op |-> "reset", buf |-> <<>>, sink |-> NoCall, ret |-> NoCall]
    /\ UNCHANGED <<inner, lifecycle, digest>>

\* impl<D: Digest + digest::Reset, T> WriteHasher<D, T>: reset
WriteHasher_reset ==
    /\ "digest" \in features
    /\ hasher.alg = "Digest"
    /\ hasher' = Digest_reset(hasher)
    /\ fed' = <<>>
    /\ call' = [op |-> "reset", buf |-> <<>>, sink |-> NoCall, ret |-> NoCall]
    /\ UNCHANGED <<inner, lifecycle, digest>>

WriteOps == {"write", "poll_write"}
FlushOps == {"flush", "poll_flush"}
CloseOps == {"poll_close", "poll_shutdown"}

(***************************************************************************)
(* Callers.  Ownership serialises the calls and forbids any after          *)
(* finalize(self); the caller records what it was told was accepted.       *)
(***************************************************************************)
config == <<features, build, flavor>>

window == <<features, build, flavor, origin>>

\* The caller's record of a write of buf, from the value the adapter returned.
Observe(buf) ==
    accepted' = IF call'.ret.kind = "Ok"
                  THEN accepted \o SubSeq(buf, 1, call'.ret.n)
                  ELSE accepted

CallWrite ==
    /\ lifecycle = "Active"
    /\ \E buf \in Bufs : \E r \in SinkWriteAnswers(buf) :
         /\ \/ stdio_write(buf, r)
            \/ tokio_poll_write(buf, r)
            \/ futures_poll_write(buf, r)
         /\ Observe(buf)
    /\ UNCHANGED <<window, caller>>

CallFlush ==
    /\ lifecycle = "Active"
    /\ \E r \in SinkUnitAnswers :
         \/ stdio_flush(r)
         \/ tokio_poll_flush(r)
         \/ futures_poll_flush(r)
    /\ UNCHANGED <<window, caller, accepted>>

CallClose ==
    /\ lifecycle = "Active"
    /\ \E r \in SinkUnitAnswers :
         \/ tokio_poll_shutdown(r)
         \/ futures_poll_close(r)
    /\ UNCHANGED <<window, caller, accepted>>

CallUpdate ==
    /\ lifecycle = "Active"
    /\ \E data \in Bufs :
         /\ (Len(fed) - Len(accepted)) + Len(data) <= MaxDirect
         /\ WriteHasher_update(data)
    /\ UNCHANGED <<window, caller, accepted>>

CallReset ==
    /\ lifecycle = "Active"
    /\ WriteHasher_reset
    /\ accepted' = <<>>
    /\ origin' = Default(hasher.alg)
    /\ UNCHANGED <<config, caller>>

CallFinalize ==
    /\ lifecycle = "Active"
    /\ WriteHasher_finalize
    /\ UNCHANGED <<window, caller, accepted>>

\* The sink contract: write, flush, close/shutdown in any order, then finalize.
Next ==
    \/ CallWrite
    \/ CallFlush
    \/ CallClose
    \/ CallFinalize

Spec == Init /\ [][Next]_vars

\* The sink contract and the adapter's own MinDigest::update.
NextUpdate ==
    \/ CallWrite
    \/ CallFlush
    \/ CallClose
    \/ CallUpdate
    \/ CallFinalize

SpecUpdate == Init /\ [][NextUpdate]_vars

\* The sink contract and reset.
NextReset ==
    \/ CallWrite
    \/ CallFlush
    \/ CallClose
    \/ CallReset
    \/ CallFinalize

SpecReset == Init /\ [][NextReset]_vars

(***************************************************************************)
(* The retrying caller (write_all, copy): it offers a buffer, re-polls the *)
(* same bytes after Pending, and after Ok(n) offers only the remainder     *)
(* until the whole buffer has been accepted.                               *)
(***************************************************************************)
Rest == SubSeq(caller.whole, caller.off + 1, Len(caller.whole))

Complete == caller.off = Len(caller.whole)

Begin ==
    /\ lifecycle = "Active"
    /\ Complete
    /\ \E buf \in Bufs :
         /\ Len(caller.delivered) + Len(buf) <= MaxTotal
         /\ caller' = [caller EXCEPT !.whole = buf, !.off = 0,
                                     !.delivered = @ \o buf,
                                     !.startHasher = hasher, !.startFed = fed,
                                     !.pended = FALSE, !.repolled = FALSE,
                                     !.parts = 0]
    /\ UNCHANGED <<window, hasher, inner, lifecycle, digest, call, fed, accepted>>

Offer ==
    /\ lifecycle = "Active"
    /\ ~Complete
    /\ \E r \in SinkWriteAnswers(Rest) :
         /\ \/ stdio_write(Rest, r)
            \/ tokio_poll_write(Rest, r)
            \/ futures_poll_write(Rest, r)
         /\ Observe(Rest)
         /\ caller' = [caller EXCEPT
                !.off = IF call'.ret.kind = "Ok" THEN @ + call'.ret.n ELSE @,
                !.pended = (call'.ret.kind = "Pending"),
                !.repolled = caller.pended,
                !.parts = IF call'.ret.kind = "Ok" /\ call'.ret.n > 0 THEN @ + 1 ELSE @,
                !.pollHasher = IF caller.pended THEN @ ELSE hasher,
                !.pollFed = IF caller.pended THEN @ ELSE fed]
    /\ UNCHANGED window

NextCaller ==
    \/ Begin
    \/ Offer
    \/ CallFlush
    \/ CallClose
    \/ CallFinalize

SpecCaller == Init /\ [][NextCaller]_vars

(***************************************************************************)
(* The build: features are enabled one by one, then the crate is compiled. *)
(***************************************************************************)
InitBuild ==
    /\ features = {}
    /\ build = "none"
    /\ flavor = "stdio"
    /\ hasher = Crc32c_new
    /\ origin = Crc32c_new
    /\ inner = EmptySink
    /\ lifecycle = "Active"
    /\ digest = NoDigest
    /\ call = [op |-> "new", buf |-> <<>>, sink |-> NoCall, ret |-> NoCall]
    /\ fed = <<>>
    /\ accepted = <<>>
    /\ caller = [whole |-> <<>>, off |-> 0, delivered |-> <<>>,
                 startHasher |-> hasher, startFed |-> <<>>,
                 pollHasher |-> hasher, pollFed |-> <<>>, pended |-> FALSE,
                 repolled |-> FALSE, parts |-> 0]

EnableFeature ==
    /\ build = "none"
    /\ \E f \in Features : features' = features \cup {f}
    /\ UNCHANGED <<build, flavor, hasher, origin, inner, lifecycle, digest, call, fed,
                   accepted, caller>>

CargoBuild ==
    /\ build = "none"
    /\ build' = Compile(features)
    /\ UNCHANGED <<features, flavor, hasher, origin, inner, lifecycle, digest, call, fed,
                   accepted, caller>>

NextBuild ==
    \/ EnableFeature
    \/ CargoBuild

SpecBuild == InitBuild /\ [][NextBuild]_vars

(***************************************************************************)
(* Properties.                                                             *)
(***************************************************************************)

\* The digest of an adapter constructed like this one (after a reset: with the
\* default hasher) and fed data.
FreshDigest(data) == MinDigest_finalize(MinDigest_update(origin, data))

\* C1 (Spec).  Hashed-equals-accepted: in every flavor, after any sequence of
\* write, flush and close/shutdown calls, whatever the sink answered, the bytes
\* fed to the hasher are the concatenation, in call order, of buf[0..n] over
\* the writes that returned Ok(n), and the hasher is in the state that input
\* gives; errors and Pending contribute nothing.
C1_HashedEqualsAccepted ==
    /\ fed = accepted
    /\ hasher = MinDigest_update(origin, accepted)

C1_Witness ==
    /\ origin # Default(hasher.alg)
    /\ hasher.alg = "Crc32c"
    /\ call.op \in WriteOps
    /\ call.ret.kind = "Ok"
    /\ 0 < call.ret.n
    /\ call.ret.n < Len(call.buf)
    /\ Len(accepted) > call.ret.n

\* C2 (SpecUpdate).  Under every operation the adapter exposes, its own
\* MinDigest::update included, the bytes fed to the hasher equal the bytes the
\* inner sink reported as accepted.
C2_FedEqualsSinkAccepted == lifecycle = "Active" => fed = inner.data

\* C3 (Spec).  Transparency: the value a write / poll_write returns is exactly
\* the value the inner sink returned for that buffer: same count, same error,
\* Pending only when the sink said Pending.
C3_Transparency == call.op \in WriteOps => call.ret = call.sink

C3_Witness ==
    /\ flavor = "stdio"
    /\ call.op = "write"
    /\ call.sink = Ok(1)
    /\ Len(call.buf) = 2
    /\ call.ret = Ok(1)

\* C4 (Spec).  Error semantics: a write the sink fails leaves the hasher as it
\* was, returns the sink's error and leaves the adapter Active; a write that
\* succeeds right after a failed one is hashed like any other (A accepted, B
\* failed, C accepted: the hasher input is A followed by C).
C4_ErrorStep ==
    call'.op \in WriteOps =>
        /\ call'.sink.kind = "Err" =>
              /\ hasher' = hasher
              /\ fed' = fed
              /\ lifecycle' = "Active"
              /\ call'.ret = call'.sink
        /\ (call.op \in WriteOps /\ call.ret.kind = "Err" /\ call'.ret.kind = "Ok") =>
              /\ fed' = fed \o SubSeq(call'.buf, 1, call'.ret.n)
              /\ hasher' = MinDigest_update(hasher, SubSeq(call'.buf, 1, call'.ret.n))

C4_ErrorSemantics == [][C4_ErrorStep]_vars

C4_Witness ==
    /\ call.op \in WriteOps
    /\ call.ret = Err("BrokenPipe")
    /\ call.buf = <<66>>
    /\ fed = <<65>>
    /\ inner.data = <<65>>
    /\ lifecycle = "Active"

\* C5 (SpecCaller).  Partial writes: while the caller re-offers the remainder,
\* the hasher input has grown by exactly the bytes accepted so far, so when
\* the whole buffer has been accepted it has been hashed exactly once, and the
\* digest does not depend on how the sink sliced it.
C5_PartialWrites ==
    /\ fed = caller.startFed \o SubSeq(caller.whole, 1, caller.off)
    /\ hasher = MinDigest_update(caller.startHasher, SubSeq(caller.whole, 1, caller.off))
    /\ (lifecycle = "Finalized" /\ Complete) =>
          digest = MinDigest_finalize(MinDigest_update(caller.startHasher, caller.whole))

C5_Witness ==
    /\ flavor = "tokio"
    /\ lifecycle = "Finalized"
    /\ Complete
    /\ Len(caller.whole) = MaxLen
    /\ caller.startFed # <<>>
    /\ caller.parts = MaxLen
    /\ hasher.alg = "Crc32c"

\* C6 (Spec).  flush, poll_flush, poll_close and poll_shutdown leave the hasher
\* unchanged whatever the sink answers and return the sink's answer; so the
\* digest at finalize is that of the accepted writes alone, wherever flush and
\* close calls were inserted.
C6_FlushStep ==
    call'.op \in FlushOps \cup CloseOps =>
        /\ hasher' = hasher
        /\ fed' = fed
        /\ call'.ret = call'.sink
        /\ call'.sink.kind \in {"Ok", "Err", "Pending"}

C6_FlushCloseFrame ==
    /\ [][C6_FlushStep]_vars
    /\ [](lifecycle = "Finalized" => digest = FreshDigest(accepted))

C6_Witness ==
    /\ flavor = "tokio"
    /\ lifecycle = "Finalized"
    /\ inner.closed
    /\ 0 < inner.closedAt
    /\ inner.closedAt < Len(inner.data)
    /\ Len(accepted) = MaxTotal

\* C7 (SpecCaller).  Cooperative flavors: poll_write returns Pending exactly
\* when the sink did; while a write has only seen Pending the hasher is as it
\* was before its first poll (so abandoning it leaves the hasher untouched);
\* the hasher moves only in a poll that returns Ready(Ok(n)), and then by the
\* accepted prefix, once, also when the poll follows Pending results.
C7_Cooperative ==
    /\ call.op = "poll_write" =>
          (call.ret.kind = "Pending" <=> call.sink.kind = "Pending")
    /\ caller.pended => (fed = caller.pollFed /\ hasher = caller.pollHasher)
    /\ (call.op = "poll_write" /\ call.ret.kind # "Ok") =>
          (fed = caller.pollFed /\ hasher = caller.pollHasher)
    /\ (call.op = "poll_write" /\ call.ret.kind = "Ok") =>
          /\ fed = caller.pollFed \o SubSeq(call.buf, 1, call.ret.n)
          /\ hasher = MinDigest_update(caller.pollHasher, SubSeq(call.buf, 1, call.ret.n))

C7_Witness ==
    /\ flavor = "futures"
    /\ call.op = "poll_write"
    /\ call.ret.kind = "Ok"
    /\ call.ret.n > 0
    /\ caller.repolled
    /\ caller.pollFed # <<>>

\* C8 (SpecCaller).  Flavor equivalence: once the caller's byte sequence has
\* been delivered in full, the hasher input is that sequence and the digest is
\* the one a fresh hasher of the same type gives for it, in each of the three
\* flavors, however the sink chunked the writes and however often it was
\* Pending.
C8_FlavorEquivalence ==
    \A f \in {"stdio", "tokio", "futures"} :
        (flavor = f /\ Complete) =>
            /\ fed = caller.delivered
            /\ hasher = MinDigest_update(origin, caller.delivered)
            /\ lifecycle = "Finalized" => digest = FreshDigest(caller.delivered)

C8_Witness ==
    /\ flavor = "futures"
    /\ hasher.alg = "Crc32c"
    /\ lifecycle = "Finalized"
    /\ Complete
    /\ Len(caller.delivered) = MaxTotal
    /\ caller.repolled
    /\ Len(caller.whole) > 1

\* C9 (SpecReset).  reset returns the hasher to its initial state, issues no
\* call to the inner sink, leaves the sink as it was and the adapter Active;
\* the digest at finalize is that of a fresh adapter fed only what was
\* accepted after the last reset.
C9_ResetStep ==
    call'.op = "reset" =>
        /\ hasher' = Default(hasher.alg)
        /\ fed' = <<>>
        /\ inner' = inner
        /\ call'.sink = NoCall
        /\ lifecycle' = "Active"

C9_Reset ==
    /\ [][C9_ResetStep]_vars
    /\ [](lifecycle = "Finalized" => digest = FreshDigest(accepted))

C9_Witness ==
    /\ lifecycle = "Finalized"
    /\ hasher.alg = "Digest"
    /\ fed = accepted
    /\ accepted # <<>>
    /\ Len(inner.data) > Len(accepted)

\* C10 (SpecBuild), as stated.  Every build that enables digest with at least
\* one per-hash option (sha1, sha2, md2, md4, md5, blake2, crc32fast, crc32c)
\* is rejected; a build with digest and no per-hash option, or with per-hash
\* options and no digest, is not.
C10_AsStated ==
    build # "none" =>
        /\ ("digest" \in features /\ features \cap PerHashOptions # {}) =>
              build = "rejected"
        /\ ("digest" \notin features
              \/ features \cap (PerHashOptions \cup {"concrete_impls"}) = {}) =>
              build = "ok"

\* C10 (SpecBuild), amended.  A build is rejected exactly when it enables
\* digest with at least one of sha1, sha2, md2, md4, md5, blake2, crc32fast or
\* concrete_impls; crc32c with digest is accepted.
C10_BuildGuard ==
    build # "none" =>
        (build = "rejected" <=>
            /\ "digest" \in features
            /\ \E f \in {"sha1", "sha2", "md2", "md4", "md5", "blake2",
                         "crc32fast", "concrete_impls"} : f \in features)

C10_Witness ==
    /\ build = "ok"
    /\ "digest" \in features
    /\ "crc32c" \in features
    /\ features \cap ConcreteFeatures = {}

====
